---- MODULE Spec2Model ----
(***************************************************************************)
(* CheckpointManager of torch_xla/experimental/distributed_checkpoint/     *)
(* manager.py as a state machine.                                          *)
(*                                                                         *)
(* Storage under base_path is shared by the ranks of the process group:    *)
(* for each step, the snapshot data written by dist_cp.save_state_dict     *)
(* (data) and the .manager_metadata file (meta).  Every rank owns a        *)
(* manager: its deque _tracked_chkpts (tracked) and the thread that calls  *)
(* it.  Rank 0's background thread _async_worker, its queue and the        *)
(* _alive event are modelled for the asynchronous pipeline.                *)
(*                                                                         *)
(* save() is split at its storage operations, so that other ranks and the  *)
(* other thread of the same process interleave where they can in the       *)
(* program: stale delete, collective snapshot write, metadata write,       *)
(* append to the deque, and one step per iteration of the retention loop.  *)
(* datetime.now() is a clock that every reading advances.  A storage       *)
(* operation may raise, except in the run of the scenario save(0..29).     *)
(***************************************************************************)
EXTENDS Integers, Sequences, FiniteSets, TLC

\* ---------------------------------------------------------------- bounds
\* calls made by the caller thread(s) in one run of Spec
MaxCalls == 2
\* checkpoints already on storage when the managers are constructed
MaxInit == 2
\* calls made by the caller thread in one run of SpecAsync
MaxAsyncCalls == 3

\* ------------------------------------------------------------- universe
Ranks == {0, 1}
Worker == "w0"
Callers == {"c0", "c1"}
Procs == Callers \cup {Worker}
\* dist.get_rank(self.pg) of the process a thread belongs to
RankOf(p) == IF p = "c1" THEN 1 ELSE 0

\* the steps passed to save and restore in a free run
FreeSteps == 0..2
\* the steps of the scenario save(0..29) with save_interval=10, max_to_keep=2
ScenarioSteps == 0..29
Steps == FreeSteps \cup ScenarioSteps
\* the values of save_interval and of max_to_keep of a free run
Intervals == {2}
Keeps == {0, 1}
\* the values of async_queue_size, and the steps passed to save_async
QueueSizes == {1, 2}
AsyncSteps == {0, 1}

NoMeta == [step |-> -1, ts |-> -1]
\* the sentinel None that __del__ puts on the queue
Sentinel == [step |-> -1, id |-> 0]
NoItem == [step |-> -2, id |-> 0]
\* no save() in progress
NoEntry == [tracked |-> <<>>, meta |-> {}, active |-> FALSE]

VARIABLES
  save_interval,    \* self.save_interval
  max_to_keep,      \* self.max_to_keep
  async_queue_size, \* maxsize of self._async_queue
  group,            \* ranks of the process group self.pg
  scenario,         \* TRUE: the run is the scenario save(0..29)
  ninit,            \* number of checkpoints under base_path when __init__ ran
  data,             \* snapshot data under base_path: the steps written in full / in part
  meta,             \* the .manager_metadata files under base_path: a set of records
  tracked,          \* tracked[r]: self._tracked_chkpts of rank r's manager
  queue,            \* self._async_queue of rank 0: sequence of items
  alive,            \* self._alive.is_set() of rank 0
  unfinished,       \* unfinished_tasks of the queue (put increments, task_done decrements)
  pc,               \* pc[p]: position of thread p
  arg,              \* arg[p]: the call thread p is executing
  metadata,         \* metadata[p]: the local _CheckpointMetadata of p's save()
  held,             \* the item the worker has dequeued and not yet marked done
  pending,          \* the item a blocked queue.put of the caller is holding
  calls,            \* calls issued by the rank furthest ahead and not yet by every rank
  pos,              \* pos[p]: how many of calls caller p has issued
  nissued,          \* number of distinct calls issued so far
  rets,             \* rets[p]: the last two calls caller p completed, with their results
  now,              \* the clock read by datetime.now()
  reads,            \* reads[r]: steps whose path rank r has read with load_state_dict
  everTracked,      \* history: all metadata records rank 0 has ever tracked
  evicted,          \* history: evicted[p]: entries popped by retention in p's current save()
  entry,            \* history: entry[p]: tracked list and metadata files when p entered save()
  accepted,         \* history: the steps of the items save_async has put on the queue, in order
  started,          \* history: ids of queue items for which the worker called save()
  written,          \* history: ids of queue items whose snapshot write the worker began
  committed,        \* history: ids of queue items whose metadata was written and appended
  reported,         \* history: ids of queue items whose save() raised in the worker
  nGets,            \* history: number of items the worker has dequeued
  callInfo          \* history: [len, gets]: queue length and nGets when save_async was called

cfgVars == <<save_interval, max_to_keep, async_queue_size, group, scenario, ninit>>
storeVars == <<data, meta>>
queueVars == <<queue, alive, unfinished, held, pending>>
progVars == <<calls, pos, nissued>>
histVars == <<accepted, started, written, committed, reported, nGets, callInfo>>
vars == <<cfgVars, storeVars, tracked, queueVars, pc, arg, metadata, progVars, rets,
          now, reads, everTracked, evicted, entry, histVars>>

\* ------------------------------------------------------- pure functions
\* variant: a gate that lets every step pass
should_save_always(step) == TRUE

\* should_save: manager.py line 208
should_save(step) == step % save_interval = 0

RECURSIVE SortByTs(_)
\* sorted(all_chkpts, key=lambda m: m.ts), for records with distinct ts
SortByTs(S) ==
  IF S = {} THEN <<>>
  ELSE LET x == CHOOSE x \in S : \A y \in S : x.ts <= y.ts
       IN  <<x>> \o SortByTs(S \ {x})

\* _load_tracked_chkpts: the readable metadata files under base_path, by ts
LoadTrackedChkpts(m) == SortByTs(m)

\* all_steps: sorted(x.step for x in self._tracked_chkpts)
all_steps(chkpts) ==
  SortSeq([i \in DOMAIN chkpts |-> chkpts[i].step], LAMBDA a, b : a < b)

\* variant: restore without its assertion (every step passes)
TrackedStepsUnchecked(chkpts) == Steps

\* set(x.step for x in self._tracked_chkpts), restore line 284
TrackedSteps(chkpts) == {chkpts[i].step : i \in DOMAIN chkpts}

\* what is under base_path/step
DataAt(d, step) ==
  IF step \in d.full THEN "full" ELSE IF step \in d.partial THEN "partial" ELSE "none"
MetaAt(m, step) ==
  IF \E x \in m : x.step = step THEN CHOOSE x \in m : x.step = step ELSE NoMeta

\* fs.rm(raw_path, recursive=True) on base_path/step: data and metadata file go
RemovedData(d, step) == [full |-> d.full \ {step}, partial |-> d.partial \ {step}]
RemovedMeta(m, step) == {x \in m : x.step # step}

\* save_state_dict has written / has failed while writing base_path/step
WrittenData(d, step) == [full |-> d.full \cup {step}, partial |-> d.partial \ {step}]
PartialData(d, step) == [full |-> d.full \ {step}, partial |-> d.partial \cup {step}]

\* pickle.dump(metadata, f) into base_path/step/.manager_metadata, opened 'wb'
WrittenMeta(m, md) == {x \in m : x.step # md.step} \cup {md}

\* variant: a retention loop without the test max_to_keep > 0
MustReleaseUnguarded(r, chkpts) == r = 0 /\ Len(chkpts) > max_to_keep

\* variant: a retention loop without the test of the rank
MustReleaseAnyRank(r, chkpts) == max_to_keep > 0 /\ Len(chkpts) > max_to_keep

\* the guard of the retention loop, lines 197-198
MustRelease(r, chkpts) ==
  r = 0 /\ max_to_keep > 0 /\ Len(chkpts) > max_to_keep

\* variant: pop() instead of popleft(): the newest entry goes
AfterPopRight(chkpts) == SubSeq(chkpts, 1, Len(chkpts) - 1)

\* self._tracked_chkpts.popleft(): the entry removed and what is left
OldestChkpt(chkpts) == Head(chkpts)
AfterPopleft(chkpts) == Tail(chkpts)

\* variant: a queue without maxsize, whose put never blocks
QueueNeverFull(q) == FALSE

\* variant: a queue that admits one item more than its maxsize
QueueFullLate(q) == Len(q) > async_queue_size

\* queue.Queue(maxsize=async_queue_size): put blocks while the queue is full
QueueFull(q) == Len(q) >= async_queue_size

\* variant: a queue.LifoQueue, whose get hands out the newest item
QueueGetLifo(q) == [item |-> q[Len(q)], rest |-> SubSeq(q, 1, Len(q) - 1)]

\* queue.get() on a FIFO queue.Queue: the item handed out and what is left
QueueGet(q) == [item |-> Head(q), rest |-> Tail(q)]

\* a storage operation may raise (the scenario is a run in which none does)
CanFail == ~scenario

\* the last two completed calls of a caller
Push(h, e) == IF Len(h) < 2 THEN Append(h, e) ELSE <<h[2], e>>

\* ------------------------------------------------------------- returns
\* variant: a worker without the except clause, whose thread dies with the
\* exception of save()
ReturnUncaught(P, res) ==
  /\ pc' = [p \in Procs |-> IF p \in P
                             THEN (IF p = Worker
                                   THEN (IF res = "error" THEN "exited" ELSE "task_done")
                                   ELSE "idle")
                             ELSE pc[p]]
  /\ rets' = [p \in Callers |-> IF p \in P
                                 THEN Push(rets[p], [call |-> arg[p], res |-> res])
                                 ELSE rets[p]]
  /\ reported' = reported
  /\ entry' = [p \in Procs |-> IF p \in P THEN NoEntry ELSE entry[p]]

\* Threads in P leave save(): a caller gets res (or the exception "error"),
\* the worker goes on to its finally clause (the except clause reports).
Return(P, res) ==
  /\ pc' = [p \in Procs |-> IF p \in P
                             THEN (IF p = Worker THEN "task_done" ELSE "idle")
                             ELSE pc[p]]
  /\ rets' = [p \in Callers |-> IF p \in P
                                 THEN Push(rets[p], [call |-> arg[p], res |-> res])
                                 ELSE rets[p]]
  /\ reported' = IF Worker \in P /\ res = "error"
                 THEN reported \cup {held.id} ELSE reported
  /\ entry' = [p \in Procs |-> IF p \in P THEN NoEntry ELSE entry[p]]

\* ---------------------------------------------------- the caller's calls
\* Every rank makes the same calls in the same order.  Caller p issues its
\* next call c: the one the rank ahead of it issued, or a new one.  A call
\* every rank has issued is dropped from calls.
Issue(p, c, bound) ==
  /\ pc[p] = "idle"
  /\ RankOf(p) \in group
  /\ pos[p] < Len(calls) \/ nissued < bound
  /\ LET newcalls == IF pos[p] < Len(calls) THEN calls ELSE Append(calls, c)
         newpos == [pos EXCEPT ![p] = @ + 1]
         all == \A q \in Callers : RankOf(q) \in group => newpos[q] >= 1
     IN  /\ calls' = IF all THEN Tail(newcalls) ELSE newcalls
         /\ pos' = IF all
                   THEN [q \in Callers |-> IF RankOf(q) \in group
                                           THEN newpos[q] - 1 ELSE 0]
                   ELSE newpos
         /\ nissued' = IF pos[p] < Len(calls) THEN nissued ELSE nissued + 1
  /\ arg' = [arg EXCEPT ![p] = c]

\* the calls caller p may issue next
NextCalls(p, choices) ==
  IF pos[p] < Len(calls) THEN {calls[pos[p] + 1]} ELSE choices

SaveCall(step, force) == [op |-> "save", step |-> step, force |-> force]
RestoreCall(step) == [op |-> "restore", step |-> step, force |-> FALSE]
AsyncCall(step, force) == [op |-> "save_async", step |-> step, force |-> force]
JoinCall == [op |-> "join", step |-> 0, force |-> FALSE]
DelCall == [op |-> "del", step |-> 0, force |-> FALSE]
NoCall == [op |-> "none", step |-> 0, force |-> FALSE]

SyncChoices ==
  IF scenario
  THEN {SaveCall(nissued, FALSE)}
  ELSE {SaveCall(s, f) : s \in FreeSteps, f \in BOOLEAN}
       \cup {RestoreCall(s) : s \in FreeSteps}
SyncBound == IF scenario THEN Cardinality(ScenarioSteps) ELSE MaxCalls

\* save(), lines 225 and 241: the gate
Save(p, step, force, bound) ==
  /\ Issue(p, SaveCall(step, force), bound)
  /\ IF should_save(step) \/ force
     THEN /\ pc' = [pc EXCEPT ![p] = "delete"]
          /\ evicted' = [evicted EXCEPT ![p] = <<>>]
          /\ entry' = [entry EXCEPT ![p] = [tracked |-> tracked[RankOf(p)],
                                            meta |-> meta, active |-> TRUE]]
          /\ UNCHANGED rets
     ELSE /\ rets' = [rets EXCEPT ![p] =
                        Push(@, [call |-> SaveCall(step, force), res |-> "false"])]
          /\ UNCHANGED <<pc, evicted, entry>>
  /\ UNCHANGED <<cfgVars, storeVars, tracked, queueVars, metadata, now,
                 reads, everTracked, histVars>>

\* save(), line 228: _delete_chkpt_at_step(step), lines 186-190
DeleteStale(p) ==
  /\ pc[p] = "delete"
  /\ \/ /\ data' = RemovedData(data, arg[p].step)
        /\ meta' = RemovedMeta(meta, arg[p].step)
        /\ pc' = [pc EXCEPT ![p] = "write"]
        /\ UNCHANGED <<rets, reported, entry>>
     \/ /\ CanFail
        /\ Return({p}, "error")
        /\ UNCHANGED storeVars
  /\ UNCHANGED <<cfgVars, tracked, queueVars, arg, metadata, progVars, now, reads,
                 everTracked, evicted, accepted, started, written, committed, nGets, callInfo>>

\* the threads that take part in one collective write of step s: one of each
\* rank of the group, all inside save_state_dict for s
Participants(s) ==
  {P \in SUBSET Procs :
     /\ \A p \in P : pc[p] = "write" /\ arg[p].step = s /\ RankOf(p) \in group
     /\ \A r \in group : Cardinality({p \in P : RankOf(p) = r}) = 1}

\* save(), lines 229-234: dist_cp.save_state_dict, a collective of the group
WriteSnapshot(s) ==
  \E P \in Participants(s) :
    /\ \/ /\ data' = WrittenData(data, s)
          /\ pc' = [p \in Procs |-> IF p \in P THEN "meta" ELSE pc[p]]
          /\ UNCHANGED <<rets, reported, entry>>
       \/ /\ CanFail
          /\ data' = PartialData(data, s)
          /\ Return(P, "error")
    /\ written' = IF Worker \in P THEN written \cup {held.id} ELSE written
    /\ UNCHANGED <<cfgVars, meta, tracked, queueVars, arg, metadata, progVars, now,
                   reads, everTracked, evicted, accepted, started, committed,
                   nGets, callInfo>>

\* save(), lines 235-237: the metadata record and its file
WriteMetadata(p) ==
  /\ pc[p] = "meta"
  /\ now' = now + 1
  /\ LET md == [step |-> arg[p].step, ts |-> now] IN
       \/ /\ meta' = WrittenMeta(meta, md)
          /\ metadata' = [metadata EXCEPT ![p] = md]
          /\ pc' = [pc EXCEPT ![p] = "append"]
          /\ UNCHANGED <<rets, reported, entry>>
       \/ /\ CanFail
          /\ Return({p}, "error")
          /\ UNCHANGED <<meta, metadata>>
  /\ UNCHANGED <<cfgVars, data, tracked, queueVars, arg, progVars, reads,
                 everTracked, evicted, accepted, started, written, committed, nGets, callInfo>>

\* save(), line 238: self._tracked_chkpts.append(metadata)
AppendTracked(p) ==
  /\ pc[p] = "append"
  /\ tracked' = [tracked EXCEPT ![RankOf(p)] = Append(@, metadata[p])]
  /\ everTracked' = IF RankOf(p) = 0 THEN everTracked \cup {metadata[p]}
                    ELSE everTracked
  /\ committed' = IF p = Worker THEN committed \cup {held.id} ELSE committed
  /\ pc' = [pc EXCEPT ![p] = "release"]
  /\ UNCHANGED <<entry, cfgVars, storeVars, queueVars, arg, metadata, progVars, rets, now,
                 reads, evicted, accepted, started, written, reported, nGets, callInfo>>

\* save(), lines 239-240: _release_oldest_checkpoints, one iteration of its
\* loop per step, then return True
ReleaseOldest(p) ==
  /\ pc[p] = "release"
  /\ IF MustRelease(RankOf(p), tracked[RankOf(p)])
     THEN LET oldest_chkpt == OldestChkpt(tracked[RankOf(p)]) IN
            /\ tracked' = [tracked EXCEPT ![RankOf(p)] = AfterPopleft(@)]
            /\ \/ /\ data' = RemovedData(data, oldest_chkpt.step)
                  /\ meta' = RemovedMeta(meta, oldest_chkpt.step)
                  /\ evicted' = [evicted EXCEPT ![p] = Append(@, oldest_chkpt)]
                  /\ UNCHANGED <<pc, rets, reported, entry>>
               \/ /\ CanFail
                  /\ Return({p}, "error")
                  /\ UNCHANGED <<storeVars, evicted>>
     ELSE /\ Return({p}, "true")
          /\ UNCHANGED <<storeVars, tracked, evicted>>
  /\ UNCHANGED <<cfgVars, queueVars, arg, metadata, progVars, now, reads,
                 everTracked, accepted, started, written, committed, nGets, callInfo>>

\* restore(), lines 284-292: the assertion, then the read from storage
Restore(p, step, bound) ==
  /\ Issue(p, RestoreCall(step), bound)
  /\ IF step \in TrackedSteps(tracked[RankOf(p)])
     THEN /\ reads' = [reads EXCEPT ![RankOf(p)] = @ \cup {step}]
          /\ rets' = [rets EXCEPT ![p] =
                        Push(@, [call |-> RestoreCall(step),
                                 res |-> IF DataAt(data, step) = "full"
                                         THEN "restored" ELSE "read_failed"])]
     ELSE /\ rets' = [rets EXCEPT ![p] =
                        Push(@, [call |-> RestoreCall(step), res |-> "untracked"])]
          /\ UNCHANGED reads
  /\ UNCHANGED <<entry, cfgVars, storeVars, tracked, queueVars, pc, metadata, now,
                 everTracked, evicted, histVars>>

\* ------------------------------------------------------------ Spec: sync
\* the checkpoints a previous run left under base_path, oldest first
InitStorages ==
  {q \in UNION {[1..n -> FreeSteps] : n \in 0..MaxInit} :
     \A i, j \in DOMAIN q : i # j => q[i] # q[j]}

InitStore(q) ==
  /\ data = [full |-> {q[i] : i \in DOMAIN q}, partial |-> {}]
  /\ meta = {[step |-> q[i], ts |-> i] : i \in DOMAIN q}
  /\ now = Len(q) + 1
  /\ ninit = Len(q)

\* __init__, lines 130-144, in every process of the group
InitManagers ==
  /\ tracked = [r \in Ranks |-> IF r \in group THEN LoadTrackedChkpts(meta) ELSE <<>>]
  /\ everTracked = meta
  /\ queue = <<>>
  /\ alive = TRUE
  /\ unfinished = 0
  /\ held = NoItem
  /\ pending = NoItem
  /\ arg = [p \in Procs |-> NoCall]
  /\ metadata = [p \in Procs |-> NoMeta]
  /\ calls = <<>>
  /\ pos = [p \in Callers |-> 0]
  /\ nissued = 0
  /\ rets = [p \in Callers |-> <<>>]
  /\ reads = [r \in Ranks |-> {}]
  /\ evicted = [p \in Procs |-> <<>>]
  /\ entry = [p \in Procs |-> NoEntry]
  /\ accepted = <<>>
  /\ started = {}
  /\ written = {}
  /\ committed = {}
  /\ reported = {}
  /\ nGets = 0
  /\ callInfo = [len |-> 0, gets |-> 0]

InitSync(g) ==
  /\ scenario \in BOOLEAN
  /\ group = g
  /\ async_queue_size = 1
  /\ IF scenario
     THEN /\ save_interval = 10
          /\ max_to_keep = 2
          /\ InitStore(<<>>)
     ELSE /\ save_interval \in Intervals
          /\ max_to_keep \in Keeps
          /\ \E q \in InitStorages : InitStore(q)
  /\ InitManagers
  /\ pc = [p \in Procs |-> IF p = Worker THEN "get" ELSE "idle"]

Next ==
  \/ \E p \in Callers : \E c \in NextCalls(p, SyncChoices) :
       c.op = "save" /\ Save(p, c.step, c.force, SyncBound)
  \/ \E p \in Callers : \E c \in NextCalls(p, SyncChoices) :
       c.op = "restore" /\ Restore(p, c.step, SyncBound)
  \/ \E p \in Callers : DeleteStale(p)
  \/ \E p \in Callers : WriteSnapshot(arg[p].step)
  \/ \E p \in Callers : WriteMetadata(p)
  \/ \E p \in Callers : AppendTracked(p)
  \/ \E p \in Callers : ReleaseOldest(p)

\* one process, which is rank 0 of its group
Init == InitSync({0})
Spec == Init /\ [][Next]_vars

\* two processes, ranks 0 and 1
InitRanks == InitSync({0, 1})
SpecRanks == InitRanks /\ [][Next]_vars

\* ------------------------------------------------- the async pipeline
\* save_async(), lines 266-271: the gate, then queue.put, which may block
SaveAsync(p, step, force, bound) ==
  /\ Issue(p, AsyncCall(step, force), bound)
  /\ IF should_save(step) \/ force
     THEN /\ pending' = [step |-> step, id |-> Len(accepted) + 1]
          /\ callInfo' = [len |-> Len(queue), gets |-> nGets]
          /\ pc' = [pc EXCEPT ![p] = "put"]
          /\ UNCHANGED rets
     ELSE /\ rets' = [rets EXCEPT ![p] =
                        Push(@, [call |-> AsyncCall(step, force), res |-> "false"])]
          /\ UNCHANGED <<pending, callInfo, pc>>
  /\ UNCHANGED <<entry, cfgVars, storeVars, tracked, queue, alive, unfinished, held,
                 metadata, now, reads, everTracked, evicted, accepted, started,
                 written, committed, reported, nGets>>

\* queue.put(item) of save_async (line 269) and of __del__ (line 168)
QueuePut(p) ==
  /\ pc[p] = "put"
  /\ ~QueueFull(queue)
  /\ queue' = Append(queue, pending)
  /\ unfinished' = unfinished + 1
  /\ pending' = NoItem
  /\ IF pending = Sentinel
     THEN /\ pc' = [pc EXCEPT ![p] = "thread_join"]
          /\ UNCHANGED <<rets, accepted>>
     ELSE /\ pc' = [pc EXCEPT ![p] = "idle"]
          /\ rets' = [rets EXCEPT ![p] = Push(@, [call |-> arg[p], res |-> "true"])]
          /\ accepted' = Append(accepted, pending.step)
  /\ UNCHANGED <<entry, cfgVars, storeVars, tracked, alive, held, arg, metadata, progVars,
                 now, reads, everTracked, evicted, started, written, committed,
                 reported, nGets, callInfo>>

\* join(), line 302: self._async_queue.join() is entered ...
Join(p, bound) ==
  /\ Issue(p, JoinCall, bound)
  /\ pc' = [pc EXCEPT ![p] = "join"]
  /\ UNCHANGED <<entry, cfgVars, storeVars, tracked, queueVars, metadata, rets, now, reads,
                 everTracked, evicted, histVars>>

\* variant: a join that does not wait for the unfinished tasks
JoinReturnEarly(p) ==
  /\ pc[p] = "join"
  /\ pc' = [pc EXCEPT ![p] = "idle"]
  /\ rets' = [rets EXCEPT ![p] = Push(@, [call |-> arg[p], res |-> "joined"])]
  /\ UNCHANGED <<entry, cfgVars, storeVars, tracked, queueVars, arg, metadata, progVars,
                 now, reads, everTracked, evicted, histVars>>

\* ... and returns once every item put has been marked done
JoinReturn(p) ==
  /\ pc[p] = "join"
  /\ unfinished = 0
  /\ pc' = [pc EXCEPT ![p] = "idle"]
  /\ rets' = [rets EXCEPT ![p] = Push(@, [call |-> arg[p], res |-> "joined"])]
  /\ UNCHANGED <<entry, cfgVars, storeVars, tracked, queueVars, arg, metadata, progVars,
                 now, reads, everTracked, evicted, histVars>>

\* __del__, lines 165-168: clear _alive, then put the sentinel
Del(p, bound) ==
  /\ Issue(p, DelCall, bound)
  /\ alive' = FALSE
  /\ pending' = Sentinel
  /\ pc' = [pc EXCEPT ![p] = "put"]
  /\ UNCHANGED <<entry, cfgVars, storeVars, tracked, queue, unfinished, held, metadata,
                 rets, now, reads, everTracked, evicted, histVars>>

\* __del__, line 169: self._chkpt_thread.join()
ThreadJoin(p) ==
  /\ pc[p] = "thread_join"
  /\ pc[Worker] = "exited"
  /\ pc' = [pc EXCEPT ![p] = "stopped"]
  /\ rets' = [rets EXCEPT ![p] = Push(@, [call |-> arg[p], res |-> "stopped"])]
  /\ UNCHANGED <<entry, cfgVars, storeVars, tracked, queueVars, arg, metadata, progVars,
                 now, reads, everTracked, evicted, histVars>>

\* _async_worker, line 172: while self._alive.is_set()
WorkerLoop ==
  /\ pc[Worker] = "check"
  /\ pc' = [pc EXCEPT ![Worker] = IF alive THEN "get" ELSE "exited"]
  /\ UNCHANGED <<entry, cfgVars, storeVars, tracked, queueVars, arg, metadata, progVars,
                 rets, now, reads, everTracked, evicted, histVars>>

\* _async_worker, lines 174-177: get an item; save(step, state_dict, force=True)
\* unless it is the sentinel
WorkerGet ==
  /\ pc[Worker] = "get"
  /\ queue # <<>>
  /\ LET item == QueueGet(queue).item IN
       /\ held' = item
       /\ queue' = QueueGet(queue).rest
       /\ nGets' = nGets + 1
       /\ IF item # Sentinel
          THEN /\ pc' = [pc EXCEPT ![Worker] = "delete"]
               /\ arg' = [arg EXCEPT ![Worker] = SaveCall(item.step, TRUE)]
               /\ started' = started \cup {item.id}
               /\ evicted' = [evicted EXCEPT ![Worker] = <<>>]
               /\ entry' = [entry EXCEPT ![Worker] = [tracked |-> tracked[0],
                                                      meta |-> meta, active |-> TRUE]]
          ELSE /\ pc' = [pc EXCEPT ![Worker] = "task_done"]
               /\ UNCHANGED <<arg, started, evicted, entry>>
  /\ UNCHANGED <<cfgVars, storeVars, tracked, alive, unfinished, pending, metadata,
                 progVars, rets, now, reads, everTracked, accepted, written,
                 committed, reported, callInfo>>

\* _async_worker, lines 180-181: finally: self._async_queue.task_done()
WorkerTaskDone ==
  /\ pc[Worker] = "task_done"
  /\ unfinished' = unfinished - 1
  /\ held' = NoItem
  /\ pc' = [pc EXCEPT ![Worker] = "check"]
  /\ UNCHANGED <<entry, cfgVars, storeVars, tracked, queue, alive, pending, arg, metadata,
                 progVars, rets, now, reads, everTracked, evicted, histVars>>

AsyncChoices ==
  {AsyncCall(s, f) : s \in AsyncSteps, f \in BOOLEAN} \cup {JoinCall, DelCall}

\* __init__ of one process, rank 0 of its group; the worker thread has started
InitAsync ==
  /\ scenario = FALSE
  /\ group = {0}
  /\ async_queue_size \in QueueSizes
  /\ save_interval \in Intervals
  /\ max_to_keep \in {0, 1}
  /\ InitStore(<<>>)
  /\ InitManagers
  /\ pc = [p \in Procs |-> IF p = Worker THEN "check" ELSE "idle"]

NextAsync ==
  \/ \E c \in NextCalls("c0", AsyncChoices) :
       c.op = "save_async" /\ SaveAsync("c0", c.step, c.force, MaxAsyncCalls)
  \/ \E c \in NextCalls("c0", AsyncChoices) :
       c.op = "join" /\ Join("c0", MaxAsyncCalls)
  \/ \E c \in NextCalls("c0", AsyncChoices) :
       c.op = "del" /\ Del("c0", MaxAsyncCalls)
  \/ QueuePut("c0")
  \/ JoinReturn("c0")
  \/ ThreadJoin("c0")
  \/ WorkerLoop
  \/ WorkerGet
  \/ WorkerTaskDone
  \/ DeleteStale(Worker)
  \/ WriteSnapshot(arg[Worker].step)
  \/ WriteMetadata(Worker)
  \/ AppendTracked(Worker)
  \/ ReleaseOldest(Worker)

SpecAsync == InitAsync /\ [][NextAsync]_vars

\* the steps of the worker thread, and the steps by which a blocked call of
\* the caller thread goes on
WorkerStep ==
  \/ WorkerLoop
  \/ WorkerGet
  \/ WorkerTaskDone
  \/ DeleteStale(Worker)
  \/ WriteSnapshot(arg[Worker].step)
  \/ WriteMetadata(Worker)
  \/ AppendTracked(Worker)
  \/ ReleaseOldest(Worker)
CallerStep == QueuePut("c0") \/ JoinReturn("c0") \/ ThreadJoin("c0")

\* both threads are scheduled, and every storage operation of a save returns
\* or raises: a thread that can take a step eventually takes one
FairAsync == WF_vars(WorkerStep) /\ WF_vars(CallerStep)
\* the default queue (async_queue_size=1) and no retention
InitAsyncFair == InitAsync /\ async_queue_size = 1 /\ max_to_keep = 0
\* the caller's calls there: forced save_async (every call passes the gate),
\* join and __del__
FairChoices == {AsyncCall(s, TRUE) : s \in AsyncSteps} \cup {JoinCall, DelCall}
NextAsyncFair ==
  \/ \E c \in NextCalls("c0", FairChoices) :
       c.op = "save_async" /\ SaveAsync("c0", c.step, c.force, MaxAsyncCalls)
  \/ \E c \in NextCalls("c0", FairChoices) :
       c.op = "join" /\ Join("c0", MaxAsyncCalls)
  \/ \E c \in NextCalls("c0", FairChoices) :
       c.op = "del" /\ Del("c0", MaxAsyncCalls)
  \/ CallerStep
  \/ WorkerStep
SpecAsyncFair == InitAsyncFair /\ [][NextAsyncFair]_vars /\ FairAsync

\* ------------------------------------------- two ranks, saves only
\* two processes, ranks 0 and 1, over a base_path that is empty or holds the
\* checkpoint of step 0; every call is a save: forced, or of a step that does
\* not pass the gate
RankStorages == {<<>>, <<0>>}
RankChoices == {SaveCall(s, TRUE) : s \in AsyncSteps} \cup {SaveCall(1, FALSE)}

InitRanksSave ==
  /\ scenario = FALSE
  /\ group = {0, 1}
  /\ async_queue_size = 1
  /\ save_interval \in Intervals
  /\ max_to_keep \in Keeps
  /\ \E q \in RankStorages : InitStore(q)
  /\ InitManagers
  /\ pc = [p \in Procs |-> IF p = Worker THEN "get" ELSE "idle"]

NextRanksSave ==
  \/ \E p \in Callers : \E c \in NextCalls(p, RankChoices) :
       Save(p, c.step, c.force, MaxCalls)
  \/ \E p \in Callers : DeleteStale(p)
  \/ \E p \in Callers : WriteSnapshot(arg[p].step)
  \/ \E p \in Callers : WriteMetadata(p)
  \/ \E p \in Callers : AppendTracked(p)
  \/ \E p \in Callers : ReleaseOldest(p)

SpecRanksSave == InitRanksSave /\ [][NextRanksSave]_vars

\* --------------------------------- save() beside the async pipeline
\* the caller thread calls save_async, save and join on a manager with the
\* default async_queue_size=1, the worker running beside it
MixedChoices ==
  {AsyncCall(s, TRUE) : s \in AsyncSteps} \cup {SaveCall(s, TRUE) : s \in AsyncSteps}
    \cup {JoinCall}

NextMixed ==
  \/ \E c \in NextCalls("c0", MixedChoices) :
       c.op = "save_async" /\ SaveAsync("c0", c.step, c.force, MaxCalls)
  \/ \E c \in NextCalls("c0", MixedChoices) :
       c.op = "save" /\ Save("c0", c.step, c.force, MaxCalls)
  \/ \E c \in NextCalls("c0", MixedChoices) :
       c.op = "join" /\ Join("c0", MaxCalls)
  \/ QueuePut("c0")
  \/ JoinReturn("c0")
  \/ WorkerStep
  \/ \E p \in {"c0"} : DeleteStale(p)
  \/ \E p \in {"c0"} : WriteSnapshot(arg[p].step)
  \/ \E p \in {"c0"} : WriteMetadata(p)
  \/ \E p \in {"c0"} : AppendTracked(p)
  \/ \E p \in {"c0"} : ReleaseOldest(p)

InitMixed == InitAsync /\ async_queue_size = 1
SpecMixed == InitMixed /\ [][NextMixed]_vars

\* ================================================================ claims
\* the last call caller p completed, and whether it was a save that returned True
LastRet(p) == rets[p][Len(rets[p])]
SaveReturnedTrue(p) ==
  /\ pc[p] = "idle"
  /\ rets[p] # <<>>
  /\ LastRet(p).call.op = "save"
  /\ LastRet(p).res = "true"
StepsOf(chkpts) == {chkpts[i].step : i \in DOMAIN chkpts}
EntriesOf(chkpts) == {chkpts[i] : i \in DOMAIN chkpts}
Present(step) == DataAt(data, step) = "full" /\ MetaAt(meta, step) # NoMeta
Absent(step) == DataAt(data, step) = "none" /\ MetaAt(meta, step) = NoMeta

\* C1: whenever save(s, ...) has returned True, s is tracked and the snapshot
\* data and the metadata file of s are on storage (restore(s) succeeds), also
\* when s was already tracked before the call.
C1_SavedStepRestorable ==
  \A p \in Callers :
    SaveReturnedTrue(p) =>
      /\ LastRet(p).call.step \in StepsOf(tracked[RankOf(p)])
      /\ Present(LastRet(p).call.step)

\* C2: with max_to_keep > 0, when a save has returned on any rank after
\* successful saves only, that rank tracks at most max_to_keep checkpoints.
C2_AtMostMaxToKeep ==
  \A p \in Callers :
    ( /\ RankOf(p) \in group
      /\ max_to_keep > 0
      /\ SaveReturnedTrue(p)
      /\ \A i \in DOMAIN rets[p] : rets[p][i].res # "error" )
    => Len(all_steps(tracked[RankOf(p)])) <= max_to_keep

\* the k entries of S with the largest timestamps (all of S when it has fewer)
NewestOf(S, k) == {x \in S : Cardinality({y \in S : y.ts > x.ts}) < k}

\* after a successful save on rank 0: the tracked entries are the newest ones
NewestTracked ==
  (SaveReturnedTrue("c0") /\ max_to_keep > 0) =>
    /\ EntriesOf(tracked[0]) = NewestOf(everTracked, max_to_keep)
    /\ Len(tracked[0]) = Cardinality(NewestOf(everTracked, max_to_keep))

\* the end of the scenario save(0..29), save_interval=10, max_to_keep=2
ScenarioResult ==
  (scenario /\ pc["c0"] = "idle" /\ nissued = Cardinality(ScenarioSteps)) =>
    all_steps(tracked[0]) = <<10, 20>>

\* an iteration of rank 0's retention loop that does not raise removes the
\* data and the metadata file of the entry it takes off the tracked list
EvictionDeletes ==
  ( /\ pc["c0"] = "release" /\ pc'["c0"] = "release"
    /\ Len(tracked'[0]) < Len(tracked[0]) )
  => LET gone == tracked[0][1] IN
       /\ DataAt(data', gone.step) = "none"
       /\ MetaAt(meta', gone.step) = NoMeta

C4_EvictsLowestStep ==
  [][\A p \in Callers :
       ( /\ pc[p] = "release"
         /\ Len(tracked'[RankOf(p)]) < Len(tracked[RankOf(p)]) )
       => LET old == tracked[RankOf(p)]
              gone == CHOOSE x \in EntriesOf(old) : x \notin EntriesOf(tracked'[RankOf(p)])
          IN  \A i \in 1..(Len(old) - 1) : gone.step <= old[i].step]_vars

\* C5: after two save(s, force=True) in a row that returned True, the tracked
\* list holds exactly one entry for s and all_steps() lists s once.
C5_ForcedTwiceOneEntry ==
  \A p \in Callers :
    ( /\ pc[p] = "idle"
      /\ Len(rets[p]) = 2
      /\ rets[p][1].call.op = "save" /\ rets[p][1].call.force /\ rets[p][1].res = "true"
      /\ rets[p][2] = rets[p][1] )
    => LET s == rets[p][2].call.step
           steps == all_steps(tracked[RankOf(p)])
       IN  /\ Cardinality({i \in DOMAIN tracked[RankOf(p)] : tracked[RankOf(p)][i].step = s}) = 1
           /\ Cardinality({i \in DOMAIN steps : steps[i] = s}) = 1

\* C6: restore(step) with a step that is not tracked fails with the
\* untracked-step error, reads nothing from storage and changes neither the
\* tracked list, nor the queue, nor storage.
C6_UntrackedRestoreRejected ==
  [][\A s \in FreeSteps :
       ( /\ pc["c0"] = "idle"
         /\ nissued' = nissued + 1
         /\ arg'["c0"] = RestoreCall(s)
         /\ \A i \in DOMAIN tracked[0] : tracked[0][i].step # s )
       => /\ rets'["c0"][Len(rets'["c0"])] = [call |-> RestoreCall(s), res |-> "untracked"]
          /\ reads' = reads
          /\ tracked' = tracked /\ queue' = queue /\ data' = data /\ meta' = meta]_vars

\* C6 witness: a restore of an untracked step was rejected while other steps
\* are tracked and stored
C6_Witness ==
  /\ pc["c0"] = "idle"
  /\ rets["c0"] # <<>>
  /\ LastRet("c0").call.op = "restore"
  /\ LastRet("c0").res = "untracked"
  /\ LastRet("c0").call.step \notin StepsOf(tracked[0])
  /\ tracked[0] # <<>>
  /\ reads[0] = {}

InFlight ==
  Cardinality({i \in DOMAIN queue : queue[i] # Sentinel})
  + (IF held # NoItem /\ held # Sentinel THEN 1 ELSE 0)

\* C8: the number of async checkpoints in flight (waiting in the queue or being
\* saved by the worker) is at most async_queue_size.
C8_InFlightBounded == InFlight <= async_queue_size

\* C8 (amended): at most async_queue_size items wait in the queue, and with
\* the one item the worker has taken out and is saving at most
\* async_queue_size + 1 checkpoints are in flight.
C8_QueueBounded ==
  /\ Len(queue) <= async_queue_size
  /\ InFlight <= async_queue_size + 1

\* C8 witness: the queue is full while the worker is saving another item
C8_Witness ==
  /\ held.step >= 0
  /\ Len(queue) = async_queue_size
  /\ InFlight = async_queue_size + 1

\* C9: a save_async whose gate holds and that found the queue full returns only
\* after the worker has dequeued an item; one whose gate does not hold returns
\* False at once, with nothing enqueued.
C9_Backpressure ==
  [][/\ ( /\ pc["c0"] = "put" /\ pending # Sentinel
          /\ pc'["c0"] = "idle"
          /\ callInfo.len >= async_queue_size )
        => nGets' > callInfo.gets
     /\ ( /\ pc["c0"] = "idle"
          /\ nissued' = nissued + 1
          /\ arg'["c0"].op = "save_async"
          /\ ~(arg'["c0"].step % save_interval = 0 \/ arg'["c0"].force) )
        => /\ pc'["c0"] = "idle"
           /\ rets'["c0"][Len(rets'["c0"])] = [call |-> arg'["c0"], res |-> "false"]
           /\ queue' = queue /\ pending' = pending /\ unfinished' = unfinished]_vars

\* C9 witness: a save_async that found the queue full has returned True
C9_Witness ==
  /\ pc["c0"] = "idle"
  /\ rets["c0"] # <<>>
  /\ LastRet("c0").call.op = "save_async"
  /\ LastRet("c0").res = "true"
  /\ callInfo.len >= async_queue_size
  /\ nGets > callInfo.gets

\* C10: once the worker thread has exited, the worker has called save() for
\* every item save_async accepted.
C10_NothingDropped ==
  pc[Worker] = "exited" => \A i \in DOMAIN accepted : i \in started

\* __del__ has been invoked and has not returned
TearingDown == arg["c0"].op = "del" /\ pc["c0"] # "stopped"

\* C11: teardown never blocks forever: while __del__ has been invoked and has
\* not returned, some thread can take a step (the put of the sentinel, a step
\* of the worker, or the join of the worker thread), in every state of the
\* worker and of the queue at which __del__ was invoked.
C11_TeardownNeverStuck == TearingDown => ENABLED NextAsync

\* the worker reports a raised save and goes to its finally clause with the
\* item still held; the finally clause marks the item done and the worker
\* returns to its loop test, which sends it to get() while _alive is set
WorkerSurvivesFailure ==
  /\ (reported' # reported) =>
       /\ pc'[Worker] = "task_done"
       /\ reported' = reported \cup {held.id}
       /\ held' = held /\ alive' = alive
  /\ (pc[Worker] = "task_done" /\ pc'[Worker] # "task_done") =>
       /\ unfinished' = unfinished - 1
       /\ pc'[Worker] = "check"
  /\ (pc[Worker] = "check" /\ pc'[Worker] # "check" /\ alive) =>
       pc'[Worker] = "get"

\* while the manager is Running the worker has not exited, and when it waits
\* in get() on an empty queue every accepted item has been handled
WorkerKeepsUp ==
  /\ alive => pc[Worker] # "exited"
  /\ (alive /\ pc[Worker] = "get" /\ queue = <<>>) =>
       \A i \in DOMAIN accepted : i \in started /\ (i \in committed \/ i \in reported)

\* C12: a save that raises in the worker is reported, its item is marked
\* done, the worker stays alive, and while the manager is Running every item
\* accepted (before or after the failure) is eventually taken up by the worker.
C12_FailureDoesNotKillWorker ==
  /\ [][WorkerSurvivesFailure]_vars
  /\ []WorkerKeepsUp
  /\ \A i \in 1..MaxAsyncCalls :
       (Len(accepted) >= i) ~> (i \in started \/ ~alive)

\* C12 witness: the first item's save raised and was reported, a later item
\* has been committed, and the worker waits for more
C12_Witness ==
  /\ 1 \in reported
  /\ 2 \in committed
  /\ alive
  /\ pc[Worker] = "get"

\* the step at which join() returns: nothing is queued, nothing is being
\* saved, every accepted item was committed or reported, the worker runs on
JoinReturnsWhenDrained ==
  (pc["c0"] = "join" /\ pc'["c0"] = "idle") =>
    /\ queue = <<>> /\ held = NoItem /\ pending = NoItem
    /\ \A i \in DOMAIN accepted : i \in committed \/ i \in reported
    /\ alive' /\ pc'[Worker] \in {"check", "get"}

\* a join() has returned earlier in the run
Joined == \E k \in DOMAIN rets["c0"] : rets["c0"][k].res = "joined"

\* C13: join() returns only when the queue is empty and the worker saves no
\* item, every accepted item having been committed or reported as failed; a
\* join() that was called eventually returns, failures of saves included; and
\* the worker keeps running: items accepted after a join are eventually
\* taken up (unless teardown begins).
C13_JoinWaitsAndReturns ==
  /\ [][JoinReturnsWhenDrained]_vars
  /\ (pc["c0"] = "join") ~> (pc["c0"] = "idle")
  /\ \A i \in 1..MaxAsyncCalls :
       (Joined /\ Len(accepted) >= i) ~> (i \in started \/ ~alive)

\* C13 witness: an item failed, join() returned, and an item accepted after the
\* join has been started by the worker
C13_Witness ==
  /\ Len(rets["c0"]) = 2
  /\ rets["c0"][1].res = "joined"
  /\ rets["c0"][2].call.op = "save_async" /\ rets["c0"][2].res = "true"
  /\ Len(accepted) = 2 /\ 1 \in reported /\ 2 \in started

\* thread p leaves save() with an exception raised by the stale delete, the
\* snapshot write or the metadata write
SaveFails(p) ==
  /\ entry[p].active
  /\ pc[p] \in {"delete", "write", "meta"}
  /\ pc'[p] \in {"idle", "task_done"}

\* C14: when save(s) fails in its stale delete, snapshot write or metadata
\* write, the tracked list of the manager and the set of metadata files on
\* storage are what they were when the save was called, also when step s had
\* a completed checkpoint before the call.
C14_FailedSaveChangesNothing ==
  [][\A p \in {"c0"} :
       SaveFails(p) =>
         /\ tracked'[RankOf(p)] = entry[p].tracked
         /\ meta' = entry[p].meta]_vars

\* C15: in every reachable state, with several ranks running the same saves,
\* a metadata file exists under base_path/s only if the snapshot data of s is
\* completely written there (so a load at startup lists no step without its
\* complete data).
C15_MetadataOnlyWithData ==
  \A x \in meta : DataAt(data, x.step) = "full"

\* the caller on rank 0 calls save (the step at which the call is made)
CallsSave ==
  /\ pc["c0"] = "idle"
  /\ nissued' = nissued + 1
  /\ arg'["c0"].op = "save"

\* what a call of save does at its gate, for the step s and the flag force
GateOfSave ==
  CallsSave =>
    LET s == arg'["c0"].step
        force == arg'["c0"].force
    IN  IF ~force /\ s % save_interval # 0
        THEN /\ pc'["c0"] = "idle"
             /\ rets'["c0"][Len(rets'["c0"])] = [call |-> arg'["c0"], res |-> "false"]
             /\ tracked' = tracked /\ data' = data /\ meta' = meta
             /\ queue' = queue /\ reads' = reads
        ELSE /\ pc'["c0"] = "delete"
             /\ rets' = rets

C17_OnlyRankZeroDeletes ==
  [][\A p \in Callers : (RankOf(p) # 0 /\ pc[p] = "delete" /\ pc'[p] = "write") =>
       (data' = data /\ meta' = meta)]_vars

\* every rank of the group has completed the same calls, all of them saves
\* that did not fail
AllRanksSavedTheSame ==
  /\ calls = <<>>
  /\ nissued > 0
  /\ \A p \in Callers :
       /\ pc[p] = "idle"
       /\ Len(rets[p]) = nissued
       /\ \A k \in DOMAIN rets[p] :
            rets[p][k].call.op = "save" /\ rets[p][k].res \in {"true", "false"}

\* C18: after every rank of the group has completed the same sequence of
\* successful saves, all_steps() is the same list on every rank, for every
\* max_to_keep.
C18_RanksAgree ==
  AllRanksSavedTheSame =>
    \A r1, r2 \in group : all_steps(tracked[r1]) = all_steps(tracked[r2])

\* the saves among the completed calls of rank 0 that returned True
SavedOk ==
  {k \in DOMAIN rets["c0"] :
     rets["c0"][k].call.op = "save" /\ rets["c0"][k].res = "true"}

\* a step of the program keeps every tracked entry of rank 0 and removes from
\* storage nothing but the path of the step being saved, in its stale delete
\* or its rewrite
KeepsEverything ==
  /\ Len(tracked'[0]) >= Len(tracked[0])
  /\ SubSeq(tracked'[0], 1, Len(tracked[0])) = tracked[0]
  /\ \A s \in Steps :
       (DataAt(data', s) # DataAt(data, s) \/ MetaAt(meta', s) # MetaAt(meta, s)) =>
         (s = arg["c0"].step /\ pc["c0"] \in {"delete", "write", "meta"})

\* C19: with max_to_keep = 0 no save removes an entry from the tracked list
\* or deletes the checkpoint of a step other than the one being saved, and
\* after n successful saves all_steps() has n entries more than were loaded
\* at construction (n entries on an empty base_path).
C19_NoRetentionWhenZero ==
  /\ [][max_to_keep = 0 => KeepsEverything]_vars
  /\ []( ( /\ max_to_keep = 0
           /\ pc["c0"] = "idle"
           /\ Len(rets["c0"]) = nissued )
         => Len(all_steps(tracked[0])) = ninit + Cardinality(SavedOk) )

\* C19 witness: two successful saves of distinct steps on top of two loaded
\* checkpoints, with max_to_keep = 0: four entries
C19_Witness ==
  /\ max_to_keep = 0
  /\ pc["c0"] = "idle"
  /\ ninit = 2
  /\ Cardinality(SavedOk) = 2
  /\ rets["c0"][1].call.step # rets["c0"][2].call.step
  /\ Len(all_steps(tracked[0])) = 4

\* C20: on rank 0, whenever no operation is in progress, the tracked list
\* holds exactly one entry for each step that has a metadata file on storage
\* and no entry for any other step.
C20_TrackedMatchesStorage ==
  pc["c0"] = "idle" =>
    /\ StepsOf(tracked[0]) = {x.step : x \in meta}
    /\ \A i, j \in DOMAIN tracked[0] :
         tracked[0][i].step = tracked[0][j].step => i = j

\* the positions of a thread inside the checkpoint operation of save()
InSave(p) == pc[p] \in {"delete", "write", "meta", "append", "release"}

\* C21: within one manager no two executions of the checkpoint operation
\* overlap: the caller thread is never inside save() while the worker thread
\* is inside the save() of a queued item.
C21_OneSaveAtATime == ~(InSave("c0") /\ InSave(Worker))

\* the rank-0 manager is between calls and every call it made has completed
\* without raising
NoFailureSoFar ==
  /\ pc["c0"] = "idle"
  /\ Len(rets["c0"]) = nissued
  /\ \A k \in DOMAIN rets["c0"] : rets["c0"][k].res \notin {"error", "read_failed"}

\* C22: after any sequence of completed saves without failure on the rank-0
\* manager, a manager constructed now on the same base_path would load a
\* tracked list equal to the in-memory one: same steps, same multiplicity,
\* same order by timestamp.
C22_LedgerRebuiltFromStorage ==
  NoFailureSoFar => LoadTrackedChkpts(meta) = tracked[0]

\* the saves among the completed calls of rank 1 that returned True
SavedOkOnRank1 ==
  {k \in DOMAIN rets["c1"] :
     rets["c1"][k].call.op = "save" /\ rets["c1"][k].res = "true"}

\* every step keeps the entries of rank 1's tracked list and adds at most one
Rank1OnlyAppends ==
  /\ Len(tracked'[1]) \in {Len(tracked[1]), Len(tracked[1]) + 1}
  /\ SubSeq(tracked'[1], 1, Len(tracked[1])) = tracked[1]

\* the retention step of a save on rank 1 returns True and changes nothing
Rank1RetentionIdle ==
  (pc["c1"] = "release" /\ pc'["c1"] # "release") =>
    /\ pc'["c1"] = "idle"
    /\ rets'["c1"][Len(rets'["c1"])].res = "true"
    /\ tracked' = tracked /\ data' = data /\ meta' = meta

====
